---- MODULE Spec2Model ----
(***************************************************************************)
(* Model of art/attacks/evasion/targeted_universal_perturbation.py:        *)
(* the life of one TargetedUniversalPerturbation instance, from its        *)
(* construction through set_params to one call of generate (Spec), and of  *)
(* art/attacks/inference/membership_inference.py: one membership inference *)
(* attack instance and the fit and infer calls made on it (SpecMI), and    *)
(* of art/evaluations/security_curve/security_curve.py: one SecurityCurve  *)
(* instance, its list objects and the evaluate calls made on it (SpecSC).  *)
(*                                                                         *)
(* Numbers.  Inputs, perturbations and eps are integers (a fixed-point     *)
(* grid).  delta and the two rates are exact rationals <<num, den>>, so    *)
(* the comparisons of the loop condition are the exact ones; the rounding  *)
(* of IEEE doubles is not modelled.  Class labels are 0-based as in numpy. *)
(***************************************************************************)
EXTENDS Integers, Sequences, FiniteSets, TLC

VARIABLES
    pc,                     \* position of the caller / of generate
    err,                    \* exception raised by the last call, or "none"
    cfg,                    \* self.attacker, self.delta, self.max_iter, self.eps, self.norm
    classifier,             \* self.classifier (the target model)
    x, y,                   \* arguments of generate
    noise,                  \* local noise
    fooling_rate,           \* local fooling_rate, <<count, nb_instances>>
    targeted_success_rate,  \* local targeted_success_rate, <<count, nb_instances>>
    pred_y_max,             \* local pred_y_max
    nb_iter,                \* local nb_iter
    rnd_idx,                \* local rnd_idx (1-based indices into x)
    j,                      \* number of examples of the current pass already visited
    x_adv,                  \* local x_adv: [bound |-> FALSE] until line 129 assigns it
    recorded,               \* attributes generate has set on the instance
    ret,                    \* value returned by generate
    passes,                 \* history: outer passes started in this call
    predict_calls,          \* history: calls of classifier.predict
    attacker_instances,     \* history: per-sample attackers instantiated
    target_ops,             \* history: methods generate called on self.classifier
    visited,                \* history: the (ex, ey) index pairs of the current pass
    last_visit,             \* history: what the last visit of an example did
    mi_pc,                  \* membership inference: position of the caller
    mi_class,               \* class of the attack instance
    estimator,              \* self.estimator (the target model)
    attack,                 \* self.input_type, self.attack_model_type, self.default_model,
                            \* self.attack_model
    shadow,                 \* parameters of self.attack_model
    mi_op,                  \* the last call on the instance
    mi_args,                \* its arguments
    mi_err,                 \* exception it raised, or "none"
    mi_calls,               \* calls it made on the target model
    mi_train,               \* what the last fit built and handed to the training
    mi_ret,                 \* value returned by the last infer
    sc_pc,                  \* security curve: position of the caller
    sc_heap,                \* the list objects, by identity (index)
    sc_eps,                 \* self.eps: an int, or a reference to the caller's list
    sc_eps_list,            \* self.eps_list: reference to a list object
    sc_accuracy_adv_list,   \* self.accuracy_adv_list: reference to a list object
    sc_accuracy,            \* self.accuracy, <<>> for None
    sc_given,               \* history: the eps the constructor was given
    sc_returned             \* history: what each evaluate call returned

vars == <<pc, err, cfg, classifier, x, y, noise, fooling_rate, targeted_success_rate,
          pred_y_max, nb_iter, rnd_idx, j, x_adv, recorded, ret, passes,
          predict_calls, attacker_instances, target_ops, visited, last_visit>>

mi_vars == <<mi_pc, mi_class, estimator, attack, shadow, mi_op, mi_args, mi_err,
             mi_calls, mi_train, mi_ret>>

sc_vars == <<sc_pc, sc_heap, sc_eps, sc_eps_list, sc_accuracy_adv_list, sc_accuracy,
             sc_given, sc_returned>>

all_vars == <<vars, mi_vars, sc_vars>>

locals == <<noise, fooling_rate, targeted_success_rate, pred_y_max, nb_iter,
            rnd_idx, j, x_adv>>

(***************************************************************************)
(* Bounds of the model.                                                    *)
(***************************************************************************)
MaxIterBound == 2
MaxEps == 2
MaxEvaluations == 2

(***************************************************************************)
(* Rationals <<num, den>> with den > 0.                                    *)
(***************************************************************************)
RatLess(a, b) == a[1] * b[2] < b[1] * a[2]

RatLeq(a, b) == a[1] * b[2] <= b[1] * a[2]

OneMinus(d) == <<d[2] - d[1], d[2]>>

(***************************************************************************)
(* Element-wise numpy operations on one example (a tuple of integers).     *)
(***************************************************************************)
Abs(n) == IF n < 0 THEN -n ELSE n

Sign(n) == IF n < 0 THEN -1 ELSE IF n > 0 THEN 1 ELSE 0

Min(a, b) == IF a < b THEN a ELSE b

VecAdd(a, b) == [k \in DOMAIN a |-> a[k] + b[k]]

VecSub(a, b) == [k \in DOMAIN a |-> a[k] - b[k]]

Zero(a) == [k \in DOMAIN a |-> 0]

\* np.clip(v, clip_min, clip_max)
NpClip(v, clip_min, clip_max) ==
    [k \in DOMAIN v |-> IF v[k] < clip_min THEN clip_min
                        ELSE IF v[k] > clip_max THEN clip_max ELSE v[k]]

\* np.argmax: the first index holding the maximum, 0-based
Argmax(s) ==
    (CHOOSE i \in DOMAIN s : /\ \A k \in DOMAIN s : s[k] <= s[i]
                             /\ \A k \in DOMAIN s : k < i => s[k] < s[i]) - 1

\* np.sum over a sequence of booleans
RECURSIVE NpSum(_)
NpSum(b) == IF b = <<>> THEN 0
            ELSE (IF b[1] THEN 1 ELSE 0) + NpSum(Tail(b))

(***************************************************************************)
(* art.utils.projection                                                    *)
(***************************************************************************)
RECURSIVE SumSq(_)
SumSq(v) == IF v = <<>> THEN 0 ELSE v[1] * v[1] + SumSq(Tail(v))

\* floor(a * radius / sqrt(ss)) for a >= 0, ss > 0
ScaleDown(a, radius, ss) ==
    CHOOSE m \in 0..(a * radius) :
        /\ m * m * ss <= a * a * radius * radius
        /\ (m + 1) * (m + 1) * ss > a * a * radius * radius

Projection(values, eps, norm_p) ==
    IF norm_p = "inf"
    THEN [k \in DOMAIN values |-> Sign(values[k]) * Min(Abs(values[k]), eps)]
    ELSE IF SumSq(values) > eps * eps
         THEN [k \in DOMAIN values |->
                  Sign(values[k]) * ScaleDown(Abs(values[k]), eps, SumSq(values))]
         ELSE values

(***************************************************************************)
(* The target model.                                                       *)
(***************************************************************************)
RECURSIVE SumVec(_)
SumVec(v) == IF v = <<>> THEN 0 ELSE v[1] + SumVec(Tail(v))

\* classifier.predict on one example: a row of per-class scores
Predict(c, v) ==
    CASE c.kind = "const0" -> <<1, 0>>
      [] c.kind = "sum"    -> IF SumVec(v) >= c.thr THEN <<0, 1>> ELSE <<1, 0>>
      [] c.kind = "first"  -> IF v[1] >= c.thr THEN <<1, 2>> ELSE <<1, 1>>

\* classifier.predict on a batch
PredictBatch(c, xs) == [i \in DOMAIN xs |-> Predict(c, xs[i])]

\* np.argmax(..., axis=1)
ArgmaxRows(rows) == [i \in DOMAIN rows |-> Argmax(rows[i])]

\* clip_values = <<>> stands for None
TargetModels ==
    { [kind |-> "const0", thr |-> 0, has_clip_values |-> FALSE, clip_values |-> <<>>],
      [kind |-> "sum",    thr |-> 3, has_clip_values |-> TRUE,  clip_values |-> <<0, 2>>],
      [kind |-> "sum",    thr |-> 2, has_clip_values |-> TRUE,  clip_values |-> <<>>],
      [kind |-> "first",  thr |-> 2, has_clip_values |-> TRUE,  clip_values |-> <<0, 2>>] }

(***************************************************************************)
(* Inputs of generate: x, and one-hot target labels y.                     *)
(***************************************************************************)
Datasets ==
    { [x |-> << <<0, 1>>, <<1, 0>> >>, y |-> << <<0, 1>>, <<0, 1>> >>],
      [x |-> << <<5, 1>>, <<0, 0>> >>, y |-> << <<0, 1>>, <<1, 0>> >>],
      [x |-> << <<0, 1>>, <<2, 2>>, <<1, 0>> >>,
       y |-> << <<0, 1>>, <<0, 1>>, <<0, 1>> >>],
      [x |-> << <<1, 1>> >>,           y |-> << <<0, 1>> >>] }

\* the adversarial examples the per-sample attacker may return for x_in
AttackSteps == { <<0, 0>>, <<1, 1>>, <<2, 0>>, <<-1, -2>> }

AttackerGenerate(x_in) == { VecAdd(x_in, d) : d \in AttackSteps }

\* indices drawn with replacement
RandomSampleRepeating(n) == [1..n -> 1..n]

\* random.sample(range(n), n): the permutations of the indices
RandomSample(n) ==
    { p \in [1..n -> 1..n] : \A a, b \in 1..n : p[a] = p[b] => a = b }

(***************************************************************************)
(* Configuration.                                                          *)
(***************************************************************************)
\* a registry that also knows the name of the docstring's default
attacks_dict_deepfool == { "fgsm", "simba", "deepfool" }

attacks_dict == { "fgsm", "simba" }

ParamAttackers == { "fgsm", "deepfool" }

ParamDeltas == { <<-1, 2>>, <<0, 1>>, <<1, 2>>, <<1, 1>>, <<3, 2>> }

ParamMaxIters == 0..MaxIterBound

ParamEps == 0..MaxEps

ParamNorms == { "inf", "2" }

ConstructorKwargs ==
    [attacker : ParamAttackers, delta : ParamDeltas, max_iter : ParamMaxIters,
     eps : ParamEps, norm : ParamNorms]

\* set_params called with one keyword
SetParamsKwargs ==
    { [k \in {"delta"} |-> d] : d \in ParamDeltas }
    \cup { [k \in {"max_iter"} |-> m] : m \in ParamMaxIters }
    \cup { [k \in {"eps"} |-> e] : e \in ParamEps }
    \cup { [k \in {"attacker"} |-> a] : a \in ParamAttackers }

NoConfig == [attacker |-> "fgsm", delta |-> <<0, 1>>, max_iter |-> 0, eps |-> 0,
             norm |-> "inf"]

NoModel == [kind |-> "const0", thr |-> 0, has_clip_values |-> FALSE, clip_values |-> <<>>]

\* Attack.set_params: every keyword becomes an attribute
StoreParams(c, kwargs) ==
    [k \in DOMAIN c |-> IF k \in DOMAIN kwargs THEN kwargs[k] ELSE c[k]]

\* set_params accepting max_iter = 0
ParamsErrorZeroIter(c) ==
    IF RatLess(c.delta, <<0, 1>>) \/ RatLess(<<1, 1>>, c.delta) THEN "ValueError"
    ELSE IF c.max_iter < 0 THEN "ValueError"
    ELSE IF c.eps <= 0 THEN "ValueError"
    ELSE "none"

\* set_params also rejecting a name that is not registered
ParamsErrorChecksAttacker(c) ==
    IF RatLess(c.delta, <<0, 1>>) \/ RatLess(<<1, 1>>, c.delta) THEN "ValueError"
    ELSE IF c.max_iter <= 0 THEN "ValueError"
    ELSE IF c.eps <= 0 THEN "ValueError"
    ELSE IF c.attacker \notin attacks_dict THEN "ValueError"
    ELSE "none"

\* the three checks of set_params; the first failing one raises ValueError
ParamsError(c) ==
    IF RatLess(c.delta, <<0, 1>>) \/ RatLess(<<1, 1>>, c.delta) THEN "ValueError"
    ELSE IF c.max_iter <= 0 THEN "ValueError"
    ELSE IF c.eps <= 0 THEN "ValueError"
    ELSE "none"

(***************************************************************************)
(* Pieces of generate.                                                     *)
(***************************************************************************)
\* loop conditions with one slip each
WhileCondOffByOne(tsr, it, c) == RatLess(tsr, OneMinus(c.delta)) /\ it <= c.max_iter

WhileCondBudgetOnly(tsr, it, c) == it < c.max_iter

WhileCondEither(tsr, it, c) == RatLess(tsr, OneMinus(c.delta)) \/ it < c.max_iter

\* the condition of the while loop
WhileCond(tsr, it, c) == RatLess(tsr, OneMinus(c.delta)) /\ it < c.max_iter

\* hasattr(self.classifier, 'clip_values') and self.classifier.clip_values is not None
HasClipValues(c) == c.has_clip_values /\ c.clip_values # <<>>

\* the perturbation applied without clipping
ApplyNoClip(xs, n, c) == [i \in DOMAIN xs |-> VecAdd(xs[i], n)]

\* x_adv = x + noise, clipped when the model declares a range
ApplyAndClip(xs, n, c) ==
    [i \in DOMAIN xs |->
        IF HasClipValues(c)
        THEN NpClip(VecAdd(xs[i], n), c.clip_values[1], c.clip_values[2])
        ELSE VecAdd(xs[i], n)]

\* the fooling rate counting the unchanged predictions
FoolingRateUnchanged(orig, y_adv) ==
    <<NpSum([i \in DOMAIN y_adv |-> orig[i] = y_adv[i]]), Len(y_adv)>>

\* np.sum(pred_y_max != y_adv) / nb_instances
FoolingRate(orig, y_adv) ==
    <<NpSum([i \in DOMAIN y_adv |-> orig[i] # y_adv[i]]), Len(y_adv)>>

\* np.sum(y_adv == np.argmax(y, axis=1)) / nb_instances
TargetedSuccessRate(y_adv, ys) ==
    <<NpSum([i \in DOMAIN y_adv |-> y_adv[i] = ArgmaxRows(ys)[i]]), Len(y_adv)>>

\* the update without the projection
UpdateNoiseUnprojected(adv_xi, x_i, c) == VecSub(adv_xi, x_i)

\* lines 122-125: noise = adv_xi - x_i, projected on the L_p ball
UpdateNoise(adv_xi, x_i, c) == Projection(VecSub(adv_xi, x_i), c.eps, c.norm)

\* the flag with an inclusive comparison
ConvergedInclusive(it, c) == it <= c.max_iter

\* self.converged
Converged(it, c) == it < c.max_iter

\* the perturbation left out of the queried example
PerturbIgnoringNoise(x_i, n) == x_i

\* lines 111 and 116: x_i + noise
Perturb(x_i, n) == VecAdd(x_i, n)

\* the attacker run on every example
NeedsAttackAlways(current_label, target_label) == TRUE

\* line 114
NeedsAttack(current_label, target_label) == current_label # target_label

\* the perturbation updated after every attack
ClassReachedAlways(new_label, target_label) == TRUE

\* line 121
ClassReached(new_label, target_label) == new_label = target_label

\* the perturbation added to the caller's array in place
CallerInputAddedInPlace(xs, n) == [i \in DOMAIN xs |-> VecAdd(xs[i], n)]

\* line 129: x + noise is a new array, the caller's x stays as it is
CallerInput(xs, n) == xs

Unbound == [bound |-> FALSE, val |-> <<>>]

NoVisit == [checked_x |-> <<>>, attacker_calls |-> 0, attack_x |-> <<>>,
            attack_y |-> <<>>, adv_xi |-> <<>>]

NoAttrs == [a \in {} |-> 0]

(***************************************************************************)
(* Membership inference: target models, batches and labels.                *)
(***************************************************************************)
\* target models: predict as above, input_shape, nb_classes, whether
\* NeuralNetworkMixin is among the bases, whether a loss method exists
MIEstimators ==
    { [kind |-> "sum",    thr |-> 2, input_shape |-> <<2>>, nb_classes |-> 2,
       is_nn |-> TRUE,  has_loss |-> TRUE],
      [kind |-> "first",  thr |-> 1, input_shape |-> <<2>>, nb_classes |-> 2,
       is_nn |-> FALSE, has_loss |-> FALSE] }

\* batches x: two rows, three rows, and rows of the wrong width
MIBatches ==
    { << <<0, 1>>, <<2, 2>> >>,
      << <<1, 1>>, <<0, 0>>, <<2, 1>> >>,
      << <<1, 1, 1>>, <<0, 0, 0>> >> }

\* a 2-D array of one row per example, a 1-D array of one scalar per example
OneHot(rows) == [fmt |-> "onehot", oh |-> rows, idx |-> <<>>]

Index(labels) == [fmt |-> "index", oh |-> <<>>, idx |-> labels]

\* labels y: one-hot rows (2-D) or class indices (1-D)
MILabels ==
    { OneHot(<< <<0, 1>>, <<1, 0>> >>),
      Index(<<0, 1>>),
      Index(<<1, 1>>),
      Index(<<0, 0>>),
      Index(<<1, 0, 0>>) }

NoLabels == Index(<<>>)

\* the non-member batches test_x and labels test_y handed to fit
MITestBatches ==
    { << <<1, 1>>, <<0, 0>>, <<2, 1>> >>,
      << <<1, 1, 1>>, <<0, 0, 0>> >> }

MITestLabels == { Index(<<1, 0, 0>>), Index(<<0, 1>>), Index(<<1, 1>>) }

\* y.shape[0]
LabelRows(lab) == IF lab.fmt = "onehot" THEN Len(lab.oh) ELSE Len(lab.idx)

\* x.shape[0], x.shape[1]
Shape0(xb) == Len(xb)

Shape1(xb) == Len(xb[1])

\* np.unique: the distinct scalars of the array
NpUnique(lab) ==
    IF lab.fmt = "index"
    THEN { lab.idx[i] : i \in DOMAIN lab.idx }
    ELSE UNION { { lab.oh[i][k] : k \in DOMAIN lab.oh[i] } : i \in DOMAIN lab.oh }

\* art.utils.to_categorical: one row of width nb_classes per label
ToCategorical(labels, nb_classes) ==
    [i \in DOMAIN labels |-> [k \in 1..nb_classes |-> IF k - 1 = labels[i] THEN 1 ELSE 0]]

\* art.utils.check_and_transform_label_format: 2-D labels are kept (or
\* reduced to indices), 1-D labels are kept or expanded to nb_classes
\* columns; a label that has no column raises IndexError
CheckAndTransformLabelFormat(lab, nb_classes, return_one_hot) ==
    IF lab.fmt = "onehot"
    THEN IF return_one_hot
         THEN [err |-> "none", val |-> lab]
         ELSE [err |-> "none", val |-> Index(ArgmaxRows(lab.oh))]
    ELSE IF ~return_one_hot
         THEN [err |-> "none", val |-> lab]
         ELSE IF \E i \in DOMAIN lab.idx : lab.idx[i] >= nb_classes
              THEN [err |-> "IndexError", val |-> lab]
              ELSE [err |-> "none", val |-> OneHot(ToCategorical(lab.idx, nb_classes))]

\* estimator.loss on one example: a scalar
Loss(c, v, y_row) == IF Argmax(Predict(c, v)) = Argmax(y_row) THEN 0 ELSE 1

\* estimator.loss(x, y).reshape(-1, 1)
LossColumn(c, xb, y_rows) == [i \in DOMAIN xb |-> <<Loss(c, xb[i], y_rows[i])>>]

\* np.c_[a, b] and np.concatenate((a, b))
ColumnStack(a, b) == [i \in DOMAIN a |-> a[i] \o b[i]]

NpConcatenate(a, b) == a \o b

\* every row of the 2-D array has the same number of columns
SameWidth(a, b) == a = <<>> \/ b = <<>> \/ Len(a[1]) = Len(b[1])

(***************************************************************************)
(* Membership inference: the attack instance.                              *)
(***************************************************************************)
NoArgs == [init |-> <<>>, x |-> <<>>, y |-> NoLabels, test_x |-> <<>>, test_y |-> NoLabels]

NoCalls == [predict |-> 0, loss |-> 0]

NoAttack == [input_type |-> "prediction", attack_model_type |-> "None",
             default_model |-> FALSE, attack_model |-> "None"]

\* an attack model that has not been fitted
Unfitted == [fitted |-> FALSE, x1 |-> <<>>, x2 |-> <<>>, y |-> <<>>, target_fmt |-> "none",
             training |-> FALSE]

\* a supplied, pre-built classifier: fitted elsewhere, on no row of ours
Prebuilt == [fitted |-> TRUE, x1 |-> <<>>, x2 |-> <<>>, y |-> <<>>, target_fmt |-> "onehot",
             training |-> FALSE]

NoTrain == [built |-> FALSE, x1 |-> <<>>, x2 |-> <<>>, y_new |-> <<>>,
            trained |-> FALSE, fit_x |-> <<>>, fit_y |-> NoLabels]

ParamInputTypes == { "prediction", "loss", "gradient" }

ParamAttackModelTypes == { "nn", "rf", "gb", "svm" }

\* attack_model argument: None, an ART classifier, an object of another type
ParamAttackModels == { "None", "classifier", "other" }

\* state of the membership inference variables while unused
MIUnused ==
    /\ mi_pc = "unconstructed"
    /\ mi_class = "none"
    /\ estimator = CHOOSE e \in MIEstimators : e.kind = "sum"
    /\ attack = NoAttack
    /\ shadow = Unfitted
    /\ mi_op = "none"
    /\ mi_args = NoArgs
    /\ mi_err = "none"
    /\ mi_calls = NoCalls
    /\ mi_train = NoTrain
    /\ mi_ret = <<>>

(***************************************************************************)
(* Security curve: the instance and the list objects it refers to.         *)
(***************************************************************************)
\* a list object is a sequence of rationals; a reference is its index in
\* sc_heap, 0 is no object
NoEps == [is_int |-> TRUE, n |-> 0, ref |-> 0]

\* eps given to the constructor: a number of steps or a list of budgets
ParamSweeps ==
    { [is_int |-> TRUE, n |-> 1, list |-> <<>>],
      [is_int |-> TRUE, n |-> 2, list |-> <<>>],
      [is_int |-> FALSE, n |-> 0, list |-> << <<1, 1>> >>],
      [is_int |-> FALSE, n |-> 0, list |-> << <<1, 2>>, <<2, 1>> >>] }

\* classifier.clip_values of the models handed to evaluate
SCClipValues == { <<0, 1>>, <<0, 2>> }

\* the data handed to evaluate: per example the smallest budget at which the
\* attack makes the model misclassify it (0: misclassified as it is)
SCData == { <<1, 2>>, <<0, 3>>, <<2, 2, 1>>, <<3>> }

SCUnused ==
    /\ sc_pc = "unconstructed"
    /\ sc_heap = <<>>
    /\ sc_eps = NoEps
    /\ sc_eps_list = 0
    /\ sc_accuracy_adv_list = 0
    /\ sc_accuracy = <<>>
    /\ sc_given = <<>>
    /\ sc_returned = <<>>

(***************************************************************************)
(* Initial state: no instance yet.                                         *)
(***************************************************************************)
Init ==
    /\ pc = "unconstructed"
    /\ err = "none"
    /\ cfg = NoConfig
    /\ classifier = NoModel
    /\ x = <<>>
    /\ y = <<>>
    /\ noise = <<>>
    /\ fooling_rate = <<0, 1>>
    /\ targeted_success_rate = <<0, 1>>
    /\ pred_y_max = <<>>
    /\ nb_iter = 0
    /\ rnd_idx = <<>>
    /\ j = 0
    /\ x_adv = Unbound
    /\ recorded = NoAttrs
    /\ ret = <<>>
    /\ passes = 0
    /\ predict_calls = 0
    /\ attacker_instances = 0
    /\ target_ops = {}
    /\ visited = <<>>
    /\ last_visit = NoVisit
    /\ MIUnused
    /\ SCUnused

(***************************************************************************)
(* __init__: stores the classifier, then set_params.  An exception leaves  *)
(* the caller without an instance.                                         *)
(***************************************************************************)
Construct ==
    /\ pc = "unconstructed"
    /\ \E m \in TargetModels, kwargs \in ConstructorKwargs :
          /\ classifier' = m
          /\ cfg' = StoreParams(cfg, kwargs)
          /\ err' = ParamsError(StoreParams(cfg, kwargs))
          /\ pc' = IF ParamsError(StoreParams(cfg, kwargs)) = "none"
                   THEN "ready" ELSE "failed"
    /\ UNCHANGED <<x, y, locals, recorded, ret, passes, predict_calls,
                   attacker_instances, target_ops, visited, last_visit>>
    /\ UNCHANGED mi_vars
    /\ UNCHANGED sc_vars

(***************************************************************************)
(* set_params on an existing instance: the attributes are stored first,    *)
(* then checked.                                                           *)
(***************************************************************************)
SetParams ==
    /\ pc = "ready"
    /\ \E kwargs \in SetParamsKwargs :
          /\ cfg' = StoreParams(cfg, kwargs)
          /\ err' = ParamsError(StoreParams(cfg, kwargs))
    /\ UNCHANGED <<pc, classifier, x, y, locals, recorded, ret, passes,
                   predict_calls, attacker_instances, target_ops, visited,
                   last_visit>>
    /\ UNCHANGED mi_vars
    /\ UNCHANGED sc_vars

(***************************************************************************)
(* generate, lines 87-101: locals, the attacker, the original predictions. *)
(***************************************************************************)
GenerateBegin ==
    /\ pc = "ready"
    /\ \E d \in Datasets :
          /\ x' = d.x
          /\ y' = d.y
          /\ noise' = Zero(d.x[1])
          /\ fooling_rate' = <<0, 1>>
          /\ targeted_success_rate' = <<0, 1>>
          /\ nb_iter' = 0
          /\ IF cfg.attacker \in attacks_dict
             THEN /\ attacker_instances' = attacker_instances + 1
                  /\ predict_calls' = predict_calls + 1
                  /\ target_ops' = target_ops \cup {"predict"}
                  /\ pred_y_max' = ArgmaxRows(PredictBatch(classifier, d.x))
                  /\ pc' = "loop"
                  /\ err' = "none"
             ELSE /\ pc' = "raised"
                  /\ err' = "NotImplementedError"
                  /\ UNCHANGED <<attacker_instances, predict_calls, target_ops,
                                 pred_y_max>>
    /\ UNCHANGED <<cfg, classifier, rnd_idx, j, x_adv, recorded, ret, passes,
                   visited, last_visit>>
    /\ UNCHANGED mi_vars
    /\ UNCHANGED sc_vars

(***************************************************************************)
(* Line 102 true, lines 103-104: a new pass with a fresh order.            *)
(***************************************************************************)
StartPass ==
    /\ pc = "loop"
    /\ WhileCond(targeted_success_rate, nb_iter, cfg)
    /\ rnd_idx' \in RandomSample(Len(x))
    /\ j' = 0
    /\ passes' = passes + 1
    /\ visited' = <<>>
    /\ last_visit' = NoVisit
    /\ pc' = "pass"
    /\ UNCHANGED <<err, cfg, classifier, x, y, noise, fooling_rate,
                   targeted_success_rate, pred_y_max, nb_iter, x_adv, recorded,
                   ret, predict_calls, attacker_instances, target_ops>>
    /\ UNCHANGED mi_vars
    /\ UNCHANGED sc_vars

(***************************************************************************)
(* Lines 107-125: one example of the pass.                                 *)
(***************************************************************************)
VisitExample ==
    /\ pc = "pass"
    /\ j < Len(rnd_idx)
    /\ LET x_i == x[rnd_idx[j + 1]]
           y_i == y[rnd_idx[j + 1]]
           current_label == Argmax(Predict(classifier, Perturb(x_i, noise)))
           target_label == Argmax(y_i)
       IN  \/ /\ ~NeedsAttack(current_label, target_label)
              /\ predict_calls' = predict_calls + 1
              /\ last_visit' = [NoVisit EXCEPT !.checked_x = Perturb(x_i, noise)]
              /\ UNCHANGED noise
           \/ /\ NeedsAttack(current_label, target_label)
              /\ predict_calls' = predict_calls + 2
              /\ \E adv_xi \in AttackerGenerate(Perturb(x_i, noise)) :
                    LET new_label == Argmax(Predict(classifier, adv_xi))
                    IN  /\ noise' = IF ClassReached(new_label, target_label)
                                    THEN UpdateNoise(adv_xi, x_i, cfg)
                                    ELSE noise
                        /\ last_visit' = [checked_x |-> Perturb(x_i, noise),
                                          attacker_calls |-> 1,
                                          attack_x |-> Perturb(x_i, noise),
                                          attack_y |-> y_i,
                                          adv_xi |-> adv_xi]
    /\ visited' = Append(visited, [ex |-> rnd_idx[j + 1], ey |-> rnd_idx[j + 1]])
    /\ target_ops' = target_ops \cup {"predict"}
    /\ j' = j + 1
    /\ UNCHANGED <<pc, err, cfg, classifier, x, y, fooling_rate,
                   targeted_success_rate, pred_y_max, nb_iter, rnd_idx, x_adv,
                   recorded, ret, passes, attacker_instances>>
    /\ UNCHANGED mi_vars
    /\ UNCHANGED sc_vars

(***************************************************************************)
(* Lines 126-137: the pass is over; apply, clip and measure.               *)
(***************************************************************************)
EndPass ==
    /\ pc = "pass"
    /\ j = Len(rnd_idx)
    /\ nb_iter' = nb_iter + 1
    /\ LET xa == ApplyAndClip(x, noise, classifier)
           y_adv == ArgmaxRows(PredictBatch(classifier, xa))
       IN  /\ x_adv' = [bound |-> TRUE, val |-> xa]
           /\ fooling_rate' = FoolingRate(pred_y_max, y_adv)
           /\ targeted_success_rate' = TargetedSuccessRate(y_adv, y)
    /\ predict_calls' = predict_calls + 1
    /\ target_ops' = target_ops \cup {"predict"}
    /\ x' = CallerInput(x, noise)
    /\ pc' = "loop"
    /\ UNCHANGED <<err, cfg, classifier, y, noise, pred_y_max, rnd_idx, j,
                   recorded, ret, passes, attacker_instances, visited, last_visit>>
    /\ UNCHANGED mi_vars
    /\ UNCHANGED sc_vars

(***************************************************************************)
(* Line 102 false, lines 139-146: record the results and return.  Reading  *)
(* x_adv before any pass has assigned it raises UnboundLocalError.         *)
(***************************************************************************)
ExitLoop ==
    /\ pc = "loop"
    /\ ~WhileCond(targeted_success_rate, nb_iter, cfg)
    /\ IF x_adv.bound
       THEN /\ noise' = VecSub(x_adv.val[1], x[1])
            /\ recorded' = [a \in {"fooling_rate", "converged", "noise"} |->
                              CASE a = "fooling_rate" -> fooling_rate
                                [] a = "converged" -> Converged(nb_iter, cfg)
                                [] a = "noise" -> VecSub(x_adv.val[1], x[1])]
            /\ ret' = x_adv.val
            /\ pc' = "returned"
            /\ UNCHANGED err
       ELSE /\ pc' = "raised"
            /\ err' = "UnboundLocalError"
            /\ UNCHANGED <<noise, recorded, ret>>
    /\ UNCHANGED <<cfg, classifier, x, y, fooling_rate, targeted_success_rate,
                   pred_y_max, nb_iter, rnd_idx, j, x_adv, passes, predict_calls,
                   attacker_instances, target_ops, visited, last_visit>>
    /\ UNCHANGED mi_vars
    /\ UNCHANGED sc_vars

Next ==
    \/ Construct
    \/ SetParams
    \/ GenerateBegin
    \/ StartPass
    \/ VisitExample
    \/ EndPass
    \/ ExitLoop

Spec == Init /\ [][Next]_all_vars

(***************************************************************************)
(* MembershipInferenceBlackBoxRuleBased                                    *)
(***************************************************************************)
MIFail(e, calls) == [err |-> e, calls |-> calls, ret |-> <<>>]

\* line 151: 1 if p == y[index] else 0
RuleBasedBit(p, y_index) == IF p = y_index THEN 1 ELSE 0

\* infer, lines 141-151
RuleBasedInferOutcome(est, xb, lab) ==
    IF est.input_shape[1] # Shape1(xb) THEN MIFail("ValueError", NoCalls)
    ELSE LET t == CheckAndTransformLabelFormat(lab, Cardinality(NpUnique(lab)), TRUE)
         IN  IF t.err # "none" THEN MIFail(t.err, NoCalls)
             ELSE LET y_idx == ArgmaxRows(t.val.oh)
                  IN  IF Len(y_idx) # Shape0(xb) THEN MIFail("ValueError", NoCalls)
                      ELSE LET predictions == ArgmaxRows(PredictBatch(est, xb))
                           IN  [err |-> "none",
                                calls |-> [predict |-> 1, loss |-> 0],
                                ret |-> [i \in DOMAIN predictions |->
                                            RuleBasedBit(predictions[i], y_idx[i])]]

RuleBasedInit ==
    /\ mi_pc = "unconstructed"
    /\ \E est \in MIEstimators : estimator' = est
    /\ mi_class' = "rule_based"
    /\ mi_pc' = "ready"
    /\ mi_op' = "init"
    /\ UNCHANGED <<attack, shadow, mi_args, mi_err, mi_calls, mi_train, mi_ret>>
    /\ UNCHANGED vars
    /\ UNCHANGED sc_vars

RuleBasedInfer ==
    /\ mi_pc = "ready"
    /\ mi_class = "rule_based"
    /\ \E xb \in MIBatches, lab \in MILabels :
          LET o == RuleBasedInferOutcome(estimator, xb, lab)
          IN  /\ mi_args' = [NoArgs EXCEPT !.x = xb, !.y = lab]
              /\ mi_err' = o.err
              /\ mi_calls' = o.calls
              /\ mi_ret' = o.ret
    /\ mi_op' = "infer"
    /\ UNCHANGED <<mi_pc, mi_class, estimator, attack, shadow, mi_train>>
    /\ UNCHANGED vars
    /\ UNCHANGED sc_vars

(***************************************************************************)
(* MembershipInferenceBlackBox.__init__, lines 177-206                     *)
(***************************************************************************)
\* the default neural attack model: widths of its two input branches
NumFeatures(est, input_type) == IF input_type = "prediction" THEN est.nb_classes ELSE 1

\* the name of the default model validated even when a model is supplied
BlackBoxInitOutcomeChecksType(est, input_type, attack_model_type, attack_model) ==
    IF input_type \notin {"prediction", "loss"}
    THEN [err |-> "ValueError", attack |-> NoAttack, shadow |-> Unfitted]
    ELSE IF attack_model_type \notin {"nn", "rf", "gb"}
         THEN [err |-> "ValueError", attack |-> NoAttack, shadow |-> Unfitted]
         ELSE IF attack_model = "None"
              THEN [err |-> "none",
                    attack |-> [input_type |-> input_type,
                                attack_model_type |-> attack_model_type,
                                default_model |-> TRUE,
                                attack_model |-> attack_model_type],
                    shadow |-> Unfitted]
              ELSE IF attack_model # "classifier"
                   THEN [err |-> "TypeError", attack |-> NoAttack, shadow |-> Unfitted]
                   ELSE [err |-> "none",
                         attack |-> [input_type |-> input_type,
                                     attack_model_type |-> "None",
                                     default_model |-> FALSE,
                                     attack_model |-> "supplied"],
                         shadow |-> Prebuilt]

BlackBoxInitOutcome(est, input_type, attack_model_type, attack_model) ==
    IF input_type \notin {"prediction", "loss"}
    THEN [err |-> "ValueError", attack |-> NoAttack, shadow |-> Unfitted]
    ELSE IF attack_model # "None"
         THEN IF attack_model # "classifier"
              THEN [err |-> "TypeError", attack |-> NoAttack, shadow |-> Unfitted]
              ELSE [err |-> "none",
                    attack |-> [input_type |-> input_type, attack_model_type |-> "None",
                                default_model |-> FALSE, attack_model |-> "supplied"],
                    shadow |-> Prebuilt]
         ELSE IF attack_model_type \in {"nn", "rf", "gb"}
              THEN [err |-> "none",
                    attack |-> [input_type |-> input_type,
                                attack_model_type |-> attack_model_type,
                                default_model |-> TRUE,
                                attack_model |-> attack_model_type],
                    shadow |-> Unfitted]
              ELSE [err |-> "ValueError", attack |-> NoAttack, shadow |-> Unfitted]

BlackBoxInit ==
    /\ mi_pc = "unconstructed"
    /\ \E est \in MIEstimators, it \in ParamInputTypes, amt \in ParamAttackModelTypes,
          am \in ParamAttackModels :
          LET o == BlackBoxInitOutcome(est, it, amt, am)
          IN  /\ estimator' = est
              /\ attack' = o.attack
              /\ shadow' = o.shadow
              /\ mi_err' = o.err
              /\ mi_pc' = IF o.err = "none" THEN "ready" ELSE "failed"
              /\ mi_args' = [NoArgs EXCEPT !.init = <<it, amt, am>>]
    /\ mi_class' = "black_box"
    /\ mi_op' = "init"
    /\ UNCHANGED <<mi_calls, mi_train, mi_ret>>
    /\ UNCHANGED vars
    /\ UNCHANGED sc_vars

(***************************************************************************)
(* MembershipInferenceBlackBox.fit, lines 219-286                          *)
(***************************************************************************)
FitFail(e, calls, sh) == [err |-> e, calls |-> calls, train |-> NoTrain, shadow |-> sh]

\* lines 251-257: np.concatenate((np.ones(m), np.zeros(k)))
MembershipBits(m, k) == [i \in 1..(m + k) |-> IF i <= m THEN 1 ELSE 0]

\* the targets as class indices for every classical model
ShadowTargetsAllIndex(att, y_new) ==
    CheckAndTransformLabelFormat(Index(y_new), Cardinality(NpUnique(Index(y_new))), FALSE)

\* lines 282-285: the targets handed to attack_model.fit
ShadowTargets(att, y_new) ==
    IF att.attack_model_type = "gb"
    THEN CheckAndTransformLabelFormat(Index(y_new), Cardinality(NpUnique(Index(y_new))),
                                      FALSE)
    ELSE CheckAndTransformLabelFormat(Index(y_new), Cardinality(NpUnique(Index(y_new))),
                                      TRUE)

\* lines 234-248: features of one batch, and the calls they cost
Features(att, est, xb, y_rows) ==
    IF att.input_type = "prediction" THEN PredictBatch(est, xb)
    ELSE LossColumn(est, xb, y_rows)

FeatureCalls(att, n) ==
    IF att.input_type = "prediction" THEN [predict |-> n, loss |-> 0]
    ELSE [predict |-> 0, loss |-> n]

\* lines 259-286: the training set is built and the attack model trained
FitTrain(att, est, sh, a, y_rows, test_y_rows) ==
    LET features == Features(att, est, a.x, y_rows)
        test_features == Features(att, est, a.test_x, test_y_rows)
        calls == FeatureCalls(att, 2)
        x1 == NpConcatenate(features, test_features)
        y_new == MembershipBits(Shape0(a.x), Shape0(a.test_x))
    IN  IF ~SameWidth(y_rows, test_y_rows) THEN FitFail("ValueError", calls, sh)
        ELSE LET x2 == NpConcatenate(y_rows, test_y_rows)
                 built == [NoTrain EXCEPT !.built = TRUE, !.x1 = x1, !.x2 = x2,
                                          !.y_new = y_new]
             IN  IF att.default_model /\ att.attack_model_type = "nn"
                 THEN IF \/ Len(x1[1]) # NumFeatures(est, att.input_type)
                         \/ Len(x2[1]) # est.nb_classes
                      THEN [err |-> "RuntimeError", calls |-> calls, train |-> built,
                            shadow |-> sh]
                      ELSE [err |-> "none", calls |-> calls,
                            train |-> [built EXCEPT !.trained = TRUE],
                            shadow |-> [fitted |-> TRUE, x1 |-> x1, x2 |-> x2,
                                        y |-> y_new, target_fmt |-> "sigmoid",
                                        training |-> TRUE]]
                 ELSE LET y_ready == ShadowTargets(att, y_new)
                      IN  IF y_ready.err # "none"
                          THEN [err |-> y_ready.err, calls |-> calls, train |-> built,
                                shadow |-> sh]
                          ELSE [err |-> "none", calls |-> calls,
                                train |-> [built EXCEPT !.trained = TRUE,
                                                        !.fit_x = ColumnStack(x1, x2),
                                                        !.fit_y = y_ready.val],
                                shadow |-> [fitted |-> TRUE, x1 |-> x1, x2 |-> x2,
                                            y |-> y_new,
                                            target_fmt |-> y_ready.val.fmt,
                                            training |-> FALSE]]

FitOutcome(att, est, sh, a) ==
    IF est.input_shape[1] # Shape1(a.x) THEN FitFail("ValueError", NoCalls, sh)
    ELSE IF est.input_shape[1] # Shape1(a.test_x) THEN FitFail("ValueError", NoCalls, sh)
    ELSE LET ty == CheckAndTransformLabelFormat(a.y, Cardinality(NpUnique(a.y)), TRUE)
             tt == CheckAndTransformLabelFormat(a.test_y, Cardinality(NpUnique(a.test_y)),
                                                TRUE)
         IN  IF ty.err # "none" THEN FitFail(ty.err, NoCalls, sh)
             ELSE IF tt.err # "none" THEN FitFail(tt.err, NoCalls, sh)
             ELSE IF LabelRows(ty.val) # Shape0(a.x) THEN FitFail("ValueError", NoCalls, sh)
             ELSE IF LabelRows(tt.val) # Shape0(a.test_x)
                  THEN FitFail("ValueError", NoCalls, sh)
             ELSE IF att.input_type = "loss" /\ ~est.is_nn
                  THEN FitFail("TypeError", NoCalls, sh)
             ELSE IF att.input_type = "loss" /\ ~est.has_loss
                  THEN FitFail("AttributeError", NoCalls, sh)
             ELSE FitTrain(att, est, sh, a, ty.val.oh, tt.val.oh)

BlackBoxFit ==
    /\ mi_pc = "ready"
    /\ mi_class = "black_box"
    /\ \E xb \in MIBatches, lab \in MILabels, test_xb \in MITestBatches,
          test_lab \in MITestLabels :
          LET a == [NoArgs EXCEPT !.x = xb, !.y = lab, !.test_x = test_xb,
                                  !.test_y = test_lab]
              o == FitOutcome(attack, estimator, shadow, a)
          IN  /\ mi_args' = a
              /\ mi_err' = o.err
              /\ mi_calls' = o.calls
              /\ mi_train' = o.train
              /\ shadow' = o.shadow
    /\ mi_op' = "fit"
    /\ mi_ret' = <<>>
    /\ UNCHANGED <<mi_pc, mi_class, estimator, attack>>
    /\ UNCHANGED vars
    /\ UNCHANGED sc_vars

(***************************************************************************)
(* MembershipInferenceBlackBox.infer, lines 296-323                        *)
(***************************************************************************)
\* the trained attack model's decision for one (feature, label) row: member
\* iff the row was among the member rows it was trained on
ShadowDecision(sh, f, l) ==
    IF \E i \in DOMAIN sh.x1 : sh.x1[i] = f /\ sh.x2[i] = l /\ sh.y[i] = 1
    THEN 1 ELSE 0

\* attack_model.predict for one row of a classical model: a row of class
\* scores when trained on one-hot targets, a class label when trained on
\* class indices
ClassicalOutput(sh, f, l) ==
    IF sh.target_fmt = "index"
    THEN [dim |-> 0, row |-> <<>>, scalar |-> ShadowDecision(sh, f, l)]
    ELSE [dim |-> 1,
          row |-> IF ShadowDecision(sh, f, l) = 1 THEN <<0, 1>> ELSE <<1, 0>>,
          scalar |-> 0]

\* np.argmax(arr) for one element of the prediction array
ArgmaxOfOutput(o) == IF o.dim = 0 THEN 0 ELSE Argmax(o.row)

\* lines 309-323, for features and labels already extracted; p is the order
\* in which the shuffling loader yields the rows
InferShadow(att, est, sh, features, y_rows, p) ==
    IF att.default_model /\ att.attack_model_type = "nn"
    THEN IF \/ Len(features[1]) # NumFeatures(est, att.input_type)
            \/ Len(y_rows[1]) # est.nb_classes
         THEN [err |-> "RuntimeError", ret |-> <<>>]
         ELSE [err |-> "none",
               ret |-> [k \in DOMAIN features |->
                           <<ShadowDecision(sh, features[p[k]], y_rows[p[k]])>>]]
    ELSE IF ~sh.fitted THEN [err |-> "NotFittedError", ret |-> <<>>]
    ELSE IF sh.x1 # <<>> /\ Len(sh.x1[1]) + Len(sh.x2[1])
                               # Len(features[1]) + Len(y_rows[1])
         THEN [err |-> "ValueError", ret |-> <<>>]
         ELSE [err |-> "none",
               ret |-> [i \in DOMAIN features |->
                           ArgmaxOfOutput(ClassicalOutput(sh, features[i], y_rows[i]))]]

\* the row counts compared only after the features were extracted
InferOutcomeLateRowCheck(att, est, sh, xb, lab, p) ==
    IF est.input_shape[1] # Shape1(xb) THEN MIFail("ValueError", NoCalls)
    ELSE LET t == CheckAndTransformLabelFormat(lab, Cardinality(NpUnique(lab)), TRUE)
         IN  IF t.err # "none" THEN MIFail(t.err, NoCalls)
             ELSE IF LabelRows(t.val) # Shape0(xb)
                  THEN MIFail("ValueError", FeatureCalls(att, 1))
             ELSE IF att.input_type = "loss" /\ ~est.has_loss
                  THEN MIFail("AttributeError", NoCalls)
             ELSE LET o == InferShadow(att, est, sh,
                                       Features(att, est, xb, t.val.oh), t.val.oh, p)
                  IN  [err |-> o.err, calls |-> FeatureCalls(att, 1), ret |-> o.ret]

InferOutcome(att, est, sh, xb, lab, p) ==
    IF est.input_shape[1] # Shape1(xb) THEN MIFail("ValueError", NoCalls)
    ELSE LET t == CheckAndTransformLabelFormat(lab, Cardinality(NpUnique(lab)), TRUE)
         IN  IF t.err # "none" THEN MIFail(t.err, NoCalls)
             ELSE IF LabelRows(t.val) # Shape0(xb) THEN MIFail("ValueError", NoCalls)
             ELSE IF att.input_type = "loss" /\ ~est.has_loss
                  THEN MIFail("AttributeError", NoCalls)
             ELSE LET o == InferShadow(att, est, sh,
                                       Features(att, est, xb, t.val.oh), t.val.oh, p)
                  IN  [err |-> o.err, calls |-> FeatureCalls(att, 1), ret |-> o.ret]

\* an evaluation switch that also drops what the model has learnt
EvalModeForgets(att, sh) ==
    IF att.default_model /\ att.attack_model_type = "nn"
    THEN [sh EXCEPT !.training = FALSE, !.x1 = <<>>, !.x2 = <<>>, !.y = <<>>]
    ELSE sh

\* line 310: attack_model.eval() on the neural model; the classical models
\* are only asked to predict
EvalMode(att, sh) ==
    IF att.default_model /\ att.attack_model_type = "nn"
    THEN [sh EXCEPT !.training = FALSE]
    ELSE sh

BlackBoxInfer ==
    /\ mi_pc = "ready"
    /\ mi_class = "black_box"
    /\ \E xb \in MIBatches, lab \in MILabels :
          \E p \in RandomSample(Shape0(xb)) :
             LET o == InferOutcome(attack, estimator, shadow, xb, lab, p)
             IN  /\ mi_args' = [NoArgs EXCEPT !.x = xb, !.y = lab]
                 /\ mi_err' = o.err
                 /\ mi_calls' = o.calls
                 /\ mi_ret' = o.ret
                 /\ shadow' = IF o.calls # NoCalls THEN EvalMode(attack, shadow)
                              ELSE shadow
    /\ mi_op' = "infer"
    /\ UNCHANGED <<mi_pc, mi_class, estimator, attack, mi_train>>
    /\ UNCHANGED vars
    /\ UNCHANGED sc_vars

NextMI ==
    \/ RuleBasedInit
    \/ RuleBasedInfer
    \/ BlackBoxInit
    \/ BlackBoxFit
    \/ BlackBoxInfer

InitMI == Init

SpecMI == InitMI /\ [][NextMI]_all_vars

(***************************************************************************)
(* Properties of generate and set_params.                                  *)
(***************************************************************************)
(* SecurityCurve                                                           *)
(***************************************************************************)
\* __init__, lines 29-34: eps is kept by reference, the two result lists
\* are new empty lists
SecurityCurveInit ==
    /\ sc_pc = "unconstructed"
    /\ \E eps \in ParamSweeps :
          IF eps.is_int
          THEN /\ sc_heap' = << <<>>, <<>> >>
               /\ sc_eps' = [is_int |-> TRUE, n |-> eps.n, ref |-> 0]
               /\ sc_eps_list' = 1
               /\ sc_accuracy_adv_list' = 2
               /\ sc_given' = <<>>
          ELSE /\ sc_heap' = << eps.list, <<>>, <<>> >>
               /\ sc_eps' = [is_int |-> FALSE, n |-> 0, ref |-> 1]
               /\ sc_eps_list' = 2
               /\ sc_accuracy_adv_list' = 3
               /\ sc_given' = eps.list
    /\ sc_pc' = "ready"
    /\ sc_accuracy' = <<>>
    /\ UNCHANGED sc_returned
    /\ UNCHANGED <<vars, mi_vars>>

\* lines 45-48: i * eps_incr for i in 1..eps
EpsSteps(clip_values, n) == [i \in 1..n |-> <<i * (clip_values[2] - clip_values[1]), n>>]

\* _get_accuracy of the model on the data attacked with budget eps
AccuracyAdv(data, eps) ==
    <<Cardinality({ i \in DOMAIN data : eps[1] < data[i] * eps[2] }), Len(data)>>

\* evaluate, lines 38-65
Evaluate ==
    /\ sc_pc = "ready"
    /\ Len(sc_returned) < MaxEvaluations
    /\ \E clip_values \in SCClipValues, data \in SCData :
          LET cleared == [sc_heap EXCEPT ![sc_eps_list] = <<>>,
                                         ![sc_accuracy_adv_list] = <<>>]
              swept == IF sc_eps.is_int
                       THEN [cleared EXCEPT ![sc_eps_list] = EpsSteps(clip_values, sc_eps.n)]
                       ELSE Append(cleared, cleared[sc_eps.ref])
              eps_list == IF sc_eps.is_int THEN sc_eps_list ELSE Len(swept)
              done == [swept EXCEPT ![sc_accuracy_adv_list] =
                          [k \in DOMAIN swept[eps_list] |->
                              AccuracyAdv(data, swept[eps_list][k])]]
          IN  /\ sc_heap' = done
              /\ sc_eps_list' = eps_list
              /\ sc_accuracy' = AccuracyAdv(data, <<0, 1>>)
              /\ sc_returned' = Append(sc_returned,
                                       [eps_list |-> eps_list,
                                        accuracy_adv_list |-> sc_accuracy_adv_list,
                                        eps_values |-> done[eps_list],
                                        accuracy_values |-> done[sc_accuracy_adv_list],
                                        data |-> data])
    /\ UNCHANGED <<sc_pc, sc_eps, sc_accuracy_adv_list, sc_given>>
    /\ UNCHANGED <<vars, mi_vars>>

NextSC ==
    \/ SecurityCurveInit
    \/ Evaluate

InitSC == Init

SpecSC == InitSC /\ [][NextSC]_all_vars

(***************************************************************************)
\* the required targeted success rate has been reached
RateReached == RatLeq(OneMinus(cfg.delta), targeted_success_rate)

\* the model declares a clip range
DeclaresClipRange == classifier.has_clip_values /\ classifier.clip_values # <<>>

\* label the model gives example i of x_adv
LabelOfAdv(i) == Argmax(Predict(classifier, x_adv.val[i]))

\* the targeted success rate measured after the previous pass, 0 before the first
MeasuredRate ==
    IF passes = 0 THEN <<0, 1>>
    ELSE <<Cardinality({i \in DOMAIN x : LabelOfAdv(i) = Argmax(y[i])}), Len(x)>>

\* C1: with norm = infinity, after generate returns every element of
\* self.noise has absolute value <= eps.
C1_RecordedNoiseWithinEps ==
    (pc = "returned" /\ cfg.norm = "inf" /\ ParamsError(cfg) = "none")
        => \A k \in DOMAIN recorded.noise : Abs(recorded.noise[k]) <= cfg.eps

\* C2: generate never performs more than max_iter outer passes.
C2_PassesWithinMaxIter == passes <= cfg.max_iter

C2_Witness ==
    /\ pc = "loop"
    /\ passes = cfg.max_iter
    /\ passes >= 2
    /\ RatLess(targeted_success_rate, OneMinus(cfg.delta))

\* C3: after generate returns, converged is True iff the number of outer
\* passes performed is strictly less than max_iter.
C3_ConvergedIffBeforeMaxIter ==
    pc = "returned" => (recorded.converged <=> passes < cfg.max_iter)

C3_Witness ==
    /\ pc = "returned"
    /\ recorded.converged = FALSE
    /\ passes = cfg.max_iter

\* C4 as stated: whenever the rate measured after the last pass is
\* >= 1 - delta, generate returns with converged = True, also when that
\* pass is the max_iter-th.
C4_ReachedImpliesConverged ==
    (pc = "returned" /\ RateReached) => recorded.converged = TRUE

\* C4 amended: when the rate measured after a pass is >= 1 - delta and fewer
\* than max_iter passes have been performed, generate returns at once with
\* converged = True.
C4_ReachedBeforeBudgetConverges ==
    [][(pc = "loop" /\ passes >= 1 /\ passes < cfg.max_iter /\ RateReached)
          => (pc' = "returned" /\ recorded'.converged = TRUE)]_vars

C4_Witness ==
    /\ pc = "returned"
    /\ recorded.converged = TRUE
    /\ passes >= 1
    /\ RateReached

\* C5: for every configuration accepted by validation and every non-empty
\* dataset, generate never ends in an error.
C5_GenerateNeverRaises ==
    (ParamsError(cfg) = "none" /\ cfg.attacker \in attacks_dict) => pc # "raised"

\* C6: a new pass is started only if the rate measured after the previous
\* pass (0 before the first) is strictly below 1 - delta and fewer than
\* max_iter passes have been performed.
C6_PassOnlyWhileBelow ==
    [][(pc = "loop" /\ pc' = "pass")
          => (RatLess(MeasuredRate, OneMinus(cfg.delta)) /\ passes < cfg.max_iter)]_vars

C6_Witness ==
    /\ pc = "pass"
    /\ passes = 2
    /\ MeasuredRate[1] >= 1

\* C7: after generate returns, the instance holds the final fooling rate,
\* the final targeted success rate, the converged flag and the perturbation.
C7_AllResultsRecorded ==
    pc = "returned"
        => {"fooling_rate", "targeted_success_rate", "converged", "noise"}
               \subseteq DOMAIN recorded

\* example i of the original dataset with the current perturbation added,
\* brought into the declared range if there is one
Perturbed(i) ==
    [k \in DOMAIN x[i] |->
        IF DeclaresClipRange
        THEN IF x[i][k] + noise[k] < classifier.clip_values[1]
             THEN classifier.clip_values[1]
             ELSE IF x[i][k] + noise[k] > classifier.clip_values[2]
                  THEN classifier.clip_values[2]
                  ELSE x[i][k] + noise[k]
        ELSE x[i][k] + noise[k]]

\* C8: after each pass, fooling rate = (examples of the perturbed, clipped
\* original dataset whose label differs from the label of the unperturbed
\* example) / N, targeted success rate = (examples whose label equals their
\* target label) / N, and both are in [0,1].
C8_MetricsOfFullDataset ==
    (pc = "loop" /\ passes >= 1) =>
        /\ fooling_rate =
              <<Cardinality({i \in DOMAIN x :
                    Argmax(Predict(classifier, Perturbed(i)))
                        # Argmax(Predict(classifier, x[i]))}), Len(x)>>
        /\ targeted_success_rate =
              <<Cardinality({i \in DOMAIN x :
                    Argmax(Predict(classifier, Perturbed(i))) = Argmax(y[i])}), Len(x)>>
        /\ 0 <= fooling_rate[1] /\ fooling_rate[1] <= fooling_rate[2]
        /\ 0 <= targeted_success_rate[1]
        /\ targeted_success_rate[1] <= targeted_success_rate[2]

C8_Witness ==
    /\ pc = "loop"
    /\ passes >= 1
    /\ DeclaresClipRange
    /\ fooling_rate[1] >= 1
    /\ targeted_success_rate[1] >= 1
    /\ fooling_rate # targeted_success_rate

\* C9: with declared clip_values (min, max) every element of the returned
\* dataset lies in [min, max]; with none declared the returned dataset is
\* the original dataset plus the final perturbation.
C9_ReturnedDatasetClipped ==
    [][(pc = "loop" /\ pc' = "returned") =>
          IF DeclaresClipRange
          THEN \A i \in DOMAIN ret' : \A k \in DOMAIN ret'[i] :
                  /\ classifier.clip_values[1] <= ret'[i][k]
                  /\ ret'[i][k] <= classifier.clip_values[2]
          ELSE ret' = [i \in DOMAIN x |-> [k \in DOMAIN x[i] |-> x[i][k] + noise[k]]]]_vars

C9_Witness ==
    /\ pc = "returned"
    /\ DeclaresClipRange
    /\ \E i \in DOMAIN ret : \E k \in DOMAIN ret[i] :
          /\ x[i][k] > classifier.clip_values[2]
          /\ ret[i][k] = classifier.clip_values[2]

\* delta outside [0,1], max_iter <= 0 or eps <= 0
InvalidConfig(c) ==
    \/ c.delta[1] < 0
    \/ c.delta[1] > c.delta[2]
    \/ c.max_iter <= 0
    \/ c.eps <= 0

\* C10: constructing or calling set_params with delta outside [0,1],
\* max_iter <= 0 or eps <= 0 raises ValueError at once, with no query to the
\* target model and no attacker instantiated; a failed construction yields
\* no instance.
C10_InvalidParamsRaise ==
    [][(pc \in {"unconstructed", "ready"} /\ pc' \in {"failed", "ready"}
            /\ InvalidConfig(cfg'))
          => /\ err' = "ValueError"
             /\ predict_calls' = 0
             /\ attacker_instances' = 0
             /\ (pc = "unconstructed" => pc' = "failed")]_vars

C10_Witness ==
    /\ pc = "failed"
    /\ err = "ValueError"
    /\ cfg.delta = <<3, 2>>
    /\ cfg.max_iter >= 1
    /\ cfg.eps >= 1

\* C11: generate with an attacker name that is not in the registry fails
\* with NotImplementedError when the attacker is instantiated, before any
\* outer pass begins and before the target model is queried.
C11_UnregisteredAttackerFailsFirst ==
    [][(pc = "ready" /\ pc' # "ready" /\ cfg.attacker \notin {"fgsm", "simba"})
          => /\ pc' = "raised"
             /\ err' = "NotImplementedError"
             /\ predict_calls' = predict_calls
             /\ attacker_instances' = attacker_instances
             /\ passes' = 0]_vars

C11_Witness ==
    /\ pc = "raised"
    /\ err = "NotImplementedError"
    /\ cfg.attacker = "deepfool"
    /\ predict_calls = 0
    /\ x # <<>>

\* C12 as stated: an unsupported attacker name is rejected at construction
\* or set_params time, so no instance configured with an unregistered
\* attacker name exists.
C12_NoUnregisteredInstance ==
    (pc = "ready" /\ err = "none") => cfg.attacker \in {"fgsm", "simba"}

\* C12 amended: construction and set_params accept an unregistered attacker
\* name without error; the name is rejected with NotImplementedError only
\* when generate instantiates the attacker, before the target model is
\* queried.
C12_UnregisteredAcceptedUntilGenerate ==
    [][/\ (pc \in {"unconstructed", "ready"} /\ pc' \in {"failed", "ready"}
             /\ cfg'.attacker \notin {"fgsm", "simba"} /\ ~InvalidConfig(cfg'))
          => (pc' = "ready" /\ err' = "none")
       /\ (pc = "ready" /\ pc' \notin {"failed", "ready"}
             /\ cfg.attacker \notin {"fgsm", "simba"})
          => (err' = "NotImplementedError" /\ predict_calls' = 0)]_vars

C12_Witness ==
    /\ pc = "ready"
    /\ err = "none"
    /\ cfg.attacker = "deepfool"

\* C13: during generate the accumulated perturbation lies in the norm ball
\* of radius eps: it is zero at the start, and after every update its
\* L-infinity magnitude (norm = infinity) or L2 norm (norm = 2) is <= eps.
C13_NoiseInsideNormBall ==
    /\ (pc = "loop" /\ passes = 0) => \A k \in DOMAIN noise : noise[k] = 0
    /\ pc \in {"loop", "pass"} =>
          IF cfg.norm = "inf"
          THEN \A k \in DOMAIN noise : -cfg.eps <= noise[k] /\ noise[k] <= cfg.eps
          ELSE SumSq(noise) <= cfg.eps * cfg.eps

C13_Witness ==
    /\ pc = "pass"
    /\ cfg.norm = "2"
    /\ cfg.eps >= 1
    /\ j >= 1
    /\ noise[1] # 0
    /\ noise[2] # 0

(***************************************************************************)
(* Membership inference: what the caller handed in and what was expected.  *)
(***************************************************************************)
\* the class a label array names for row i
TrueLabel(lab, i) == IF lab.fmt = "index" THEN lab.idx[i] ELSE Argmax(lab.oh[i])

\* the batch has the model's input width and one label per row
ShapesMatch(xb, lab) ==
    /\ Shape1(xb) = estimator.input_shape[1]
    /\ LabelRows(lab) = Shape0(xb)

ShapeMismatch ==
    \/ ~ShapesMatch(mi_args.x, mi_args.y)
    \/ mi_op = "fit" /\ ~ShapesMatch(mi_args.test_x, mi_args.test_y)

\* errors of the checks that open fit and infer
ValidationErrors == {"ValueError", "IndexError"}

\* C14: the rule-based infer returns one value per input row, in input
\* order, 1 exactly where the arg-max of the model's prediction is the true
\* label, for every batch with matching shapes.
C14_RuleBasedOneBitPerRow ==
    (mi_class = "rule_based" /\ mi_op = "infer" /\ ShapesMatch(mi_args.x, mi_args.y))
        => /\ mi_err = "none"
           /\ Len(mi_ret) = Shape0(mi_args.x)
           /\ \A i \in DOMAIN mi_args.x :
                 mi_ret[i] = IF Argmax(Predict(estimator, mi_args.x[i]))
                                   = TrueLabel(mi_args.y, i)
                             THEN 1 ELSE 0

C16_TrainingSetOfAllRows ==
    (/\ mi_class = "black_box"
     /\ mi_op = "fit"
     /\ ~ShapeMismatch
     /\ ~(attack.input_type = "loss" /\ ~estimator.is_nn))
        => LET M == Shape0(mi_args.x)
               K == Shape0(mi_args.test_x)
           IN  /\ mi_train.built
               /\ Len(mi_train.x1) = M + K
               /\ Len(mi_train.x2) = M + K
               /\ Len(mi_train.y_new) = M + K
               /\ \A i \in 1..M :
                     /\ mi_train.y_new[i] = 1
                     /\ Argmax(mi_train.x2[i]) = TrueLabel(mi_args.y, i)
               /\ \A i \in 1..K :
                     /\ mi_train.y_new[M + i] = 0
                     /\ Argmax(mi_train.x2[M + i]) = TrueLabel(mi_args.test_y, i)

\* the label arrays pass the format check of lines 224-225 and 299
LabelsAccepted ==
    /\ CheckAndTransformLabelFormat(mi_args.y, Cardinality(NpUnique(mi_args.y)),
                                    TRUE).err = "none"
    /\ mi_op = "fit"
          => CheckAndTransformLabelFormat(mi_args.test_y,
                                          Cardinality(NpUnique(mi_args.test_y)),
                                          TRUE).err = "none"

\* the shadow model is the default neural network
NeuralShadow == attack.default_model /\ attack.attack_model_type = "nn"

\* the i-th value infer returned, as a bit
InferredBit(i) == IF NeuralShadow THEN mi_ret[i][1] ELSE mi_ret[i]

\* the one-hot labels and the features of the batch handed to infer
InferLabels ==
    CheckAndTransformLabelFormat(mi_args.y, Cardinality(NpUnique(mi_args.y)), TRUE).val.oh

InferFeatures == Features(attack, estimator, mi_args.x, InferLabels)

\* C17: for every shadow-model variant the i-th value infer returns is the
\* shadow model's decision for the i-th row of (x, y).
C17_InferInInputOrder ==
    (mi_class = "black_box" /\ mi_op = "infer" /\ mi_err = "none")
        => /\ Len(mi_ret) = Shape0(mi_args.x)
           /\ \A i \in DOMAIN mi_args.x :
                 InferredBit(i) = ShadowDecision(shadow, InferFeatures[i], InferLabels[i])

\* C18: construction with input_type 'loss' against a model without a loss
\* succeeds, and both fit and infer then raise the capability-mismatch error
\* without calling loss on the model.
C18_LossCapabilityCheckedByFitAndInfer ==
    /\ (/\ mi_class = "black_box" /\ mi_op = "init" /\ ~estimator.has_loss
        /\ mi_args.init[1] = "loss" /\ mi_args.init[3] = "None"
        /\ mi_args.init[2] \in {"nn", "rf", "gb"})
          => mi_err = "none" /\ mi_pc = "ready"
    /\ (/\ mi_class = "black_box" /\ mi_op \in {"fit", "infer"}
        /\ attack.input_type = "loss" /\ ~estimator.has_loss
        /\ ~ShapeMismatch /\ LabelsAccepted)
          => mi_err = "TypeError" /\ mi_calls.loss = 0

\* C19: an input_type other than 'prediction' or 'loss' is a configuration
\* error; without a supplied attack model an attack_model_type other than
\* 'nn', 'rf', 'gb' is a configuration error; with a supplied classifier
\* every attack_model_type is accepted and the supplied model is used.
C19_ConstructorValidation ==
    (mi_class = "black_box" /\ mi_op = "init")
        => LET input_type == mi_args.init[1]
               attack_model_type == mi_args.init[2]
               attack_model == mi_args.init[3]
           IN  /\ input_type \notin {"prediction", "loss"}
                     => mi_err = "ValueError" /\ mi_pc = "failed"
               /\ (/\ input_type \in {"prediction", "loss"}
                   /\ attack_model = "None"
                   /\ attack_model_type \notin {"nn", "rf", "gb"})
                     => mi_err = "ValueError" /\ mi_pc = "failed"
               /\ (input_type \in {"prediction", "loss"} /\ attack_model = "classifier")
                     => /\ mi_err = "none"
                        /\ mi_pc = "ready"
                        /\ ~attack.default_model
                        /\ attack.attack_model = "supplied"

C19_Witness ==
    /\ mi_class = "black_box"
    /\ mi_op = "init"
    /\ mi_args.init = <<"loss", "svm", "classifier">>
    /\ mi_pc = "ready"
    /\ attack.attack_model = "supplied"

\* the membership bits as one-hot rows of two columns
BitsOneHot(bits) == [i \in DOMAIN bits |-> IF bits[i] = 1 THEN <<0, 1>> ELSE <<1, 0>>]

ClassicalFitDone ==
    /\ mi_class = "black_box"
    /\ mi_op = "fit"
    /\ mi_train.trained
    /\ ~NeuralShadow

\* C20 as stated: a classical shadow model is fitted on the column-wise
\* concatenation of features and one-hot labels, and both for 'rf' and for
\* 'gb' the target is a vector of integer class labels.
C20_IntegerTargetsForRfAndGb ==
    ClassicalFitDone
        => /\ \A i \in DOMAIN mi_train.fit_x :
                 mi_train.fit_x[i] = mi_train.x1[i] \o mi_train.x2[i]
           /\ attack.attack_model_type \in {"rf", "gb"} => mi_train.fit_y.fmt = "index"

\* C20 amended: a classical shadow model is fitted on the column-wise
\* concatenation of features and one-hot labels; for 'gb' the target is the
\* vector of membership bits, for 'rf' and for a supplied model it is the
\* one-hot encoding of the bits.
C20_IntegerTargetsForGbOnly ==
    ClassicalFitDone
        => /\ Len(mi_train.fit_x) = Len(mi_train.x1)
           /\ \A i \in DOMAIN mi_train.fit_x :
                 mi_train.fit_x[i] = mi_train.x1[i] \o mi_train.x2[i]
           /\ attack.attack_model_type = "gb"
                 => mi_train.fit_y = Index(mi_train.y_new)
           /\ attack.attack_model_type # "gb"
                 => mi_train.fit_y = OneHot(BitsOneHot(mi_train.y_new))

C20_Witness ==
    /\ ClassicalFitDone
    /\ attack.attack_model_type = "rf"
    /\ mi_train.fit_y.fmt = "onehot"
    /\ Len(mi_train.fit_x) = 5

\* C21: for the default random forest and gradient boosting models infer
\* reports for each row the class the trained model predicts for it: 1 when
\* it classifies the row as member, 0 when as non-member.
C21_ClassicalInferReportsDecision ==
    (/\ mi_class = "black_box" /\ mi_op = "infer" /\ mi_err = "none"
     /\ attack.default_model /\ attack.attack_model_type \in {"rf", "gb"})
        => \A i \in DOMAIN mi_args.x :
              mi_ret[i] = ShadowDecision(shadow, InferFeatures[i], InferLabels[i])

(***************************************************************************)
(* Universal perturbation: one visit of an example.                        *)
(***************************************************************************)
\* a step that visits the next example of the pass
VisitStep == pc = "pass" /\ j' = j + 1

\* the example being visited, its target label and its current label
VisitedExample == x[rnd_idx[j + 1]]

VisitedTarget == Argmax(y[rnd_idx[j + 1]])

VisitedCurrent == Argmax(Predict(classifier, VecAdd(VisitedExample, noise)))

VisitedIndices == { visited[k].ex : k \in DOMAIN visited }

\* C22: while generate runs, and after it returned or raised, the caller's
\* x and y and the target model are unchanged, and predict is the only
\* method generate calls on the target model.
C22_GenerateReadOnly ==
    [][/\ pc \notin {"unconstructed", "ready"}
          => x' = x /\ y' = y /\ classifier' = classifier
       /\ target_ops' \subseteq {"predict"}]_all_vars

C22_Witness ==
    /\ pc = "returned"
    /\ ret # x
    /\ passes = 2
    /\ target_ops = {"predict"}

\* what the shadow model has learnt
ShadowParameters(sh) ==
    [fitted |-> sh.fitted, x1 |-> sh.x1, x2 |-> sh.x2, y |-> sh.y,
     target_fmt |-> sh.target_fmt]

\* C23: an infer call leaves the parameters of the trained shadow model and
\* the stored input_type and attack_model_type as they were, so the decision
\* for every (row, label) pair is the same after the call as before.
C23_InferKeepsShadowModel ==
    [][(mi_class = "black_box" /\ mi_pc = "ready" /\ mi_op' = "infer")
          => /\ ShadowParameters(shadow') = ShadowParameters(shadow)
             /\ attack' = attack
             /\ \A i \in DOMAIN shadow.x1 :
                   ShadowDecision(shadow', shadow.x1[i], shadow.x2[i])
                      = ShadowDecision(shadow, shadow.x1[i], shadow.x2[i])]_all_vars

C23_Witness ==
    /\ mi_class = "black_box"
    /\ mi_op = "infer"
    /\ mi_err = "none"
    /\ NeuralShadow
    /\ shadow.fitted
    /\ ~shadow.training
    /\ Len(shadow.x1) = 5
    /\ \E i \in DOMAIN mi_ret : mi_ret[i] = <<1>>
    /\ \E i \in DOMAIN mi_ret : mi_ret[i] = <<0>>

\* C24: in every pass each example is visited exactly once, in an order that
\* is a permutation of all indices, and each visited example is paired with
\* the target label of the same index.
C24_EachExampleOncePerPass ==
    /\ pc = "pass"
          => /\ Len(visited) = j
             /\ rnd_idx \in RandomSample(Len(x))
    /\ pc \in {"pass", "loop", "returned"}
          => /\ \A k \in DOMAIN visited : visited[k].ex = visited[k].ey
             /\ \A a, b \in DOMAIN visited : visited[a].ex = visited[b].ex => a = b
    /\ (pc \in {"loop", "returned"} /\ passes > 0)
          => /\ Len(visited) = Len(x)
             /\ VisitedIndices = 1..Len(x)

C24_Witness ==
    /\ pc = "loop"
    /\ passes = 2
    /\ Len(x) = 3
    /\ visited[1].ex = 3
    /\ visited[2].ex = 1

\* C25: the per-sample attacker is invoked for a visited example if and only
\* if the model's prediction on example + perturbation differs from the
\* target label, and then exactly once, on example + perturbation with the
\* example's target label.
C25_AttackerOnlyWhenNotTarget ==
    [][VisitStep
          => /\ last_visit'.attacker_calls = IF VisitedCurrent # VisitedTarget THEN 1 ELSE 0
             /\ last_visit'.attacker_calls = 1
                   => /\ last_visit'.attack_x = VecAdd(VisitedExample, noise)
                      /\ last_visit'.attack_y = y[rnd_idx[j + 1]]]_all_vars

C25_Witness ==
    /\ pc = "pass"
    /\ j = 2
    /\ last_visit.attacker_calls = 1
    /\ noise # Zero(noise)
    /\ last_visit.attack_x # x[rnd_idx[j]]

C27_PerturbationCarriedOver ==
    [][/\ VisitStep
          => /\ last_visit'.checked_x = VecAdd(VisitedExample, noise)
             /\ last_visit'.attacker_calls = 1
                   => last_visit'.attack_x = VecAdd(VisitedExample, noise)
       /\ (pc \in {"loop", "pass"} /\ pc' \in {"loop", "pass"} /\ pc' # pc)
          => noise' = noise
       /\ (pc = "ready" /\ pc' = "loop") => noise' = Zero(x'[1])]_all_vars

C27_Witness ==
    /\ pc = "pass"
    /\ passes = 2
    /\ j = 1
    /\ noise # Zero(noise)
    /\ last_visit.checked_x # x[rnd_idx[1]]

\* C28: a set_params call that raises leaves the stored configuration as it
\* was before the call.
C28_FailedSetParamsKeepsConfig ==
    [][(pc = "ready" /\ pc' = "ready" /\ err' # "none") => cfg' = cfg]_all_vars

\* C29: in every fit that passes the shape validation the one-hot labels of
\* both batches have the width of the target model's class count, and the
\* fit does not fail.
C29_LabelWidthIsClassCount ==
    (/\ mi_class = "black_box"
     /\ mi_op = "fit"
     /\ ~ShapeMismatch
     /\ ~(attack.input_type = "loss" /\ ~estimator.is_nn))
        => /\ mi_err = "none"
           /\ \A i \in DOMAIN mi_train.x2 : Len(mi_train.x2[i]) = estimator.nb_classes

\* C30: every evaluate call returns an eps_list and an accuracy_adv_list of
\* equal length holding that call's sweep only, what an earlier call
\* returned is not changed by a later call, and self.eps is never modified.
C30_EvaluateResultsIndependent ==
    /\ \A k \in DOMAIN sc_returned :
          LET r == sc_returned[k]
          IN  /\ Len(r.eps_values) = Len(r.accuracy_values)
              /\ \A i \in DOMAIN r.eps_values :
                    r.accuracy_values[i] = AccuracyAdv(r.data, r.eps_values[i])
              /\ sc_heap[r.eps_list] = r.eps_values
              /\ sc_heap[r.accuracy_adv_list] = r.accuracy_values
    /\ (sc_pc = "ready" /\ ~sc_eps.is_int) => sc_heap[sc_eps.ref] = sc_given

====
